---- MODULE Spec2Model ----
(***************************************************************************)
(* A model of the job-driven fetch orchestration of congress_scraper.py:   *)
(* CongressScraper.scrape() and what it calls (_init_session,              *)
(* _scrape_page, LegislationScraper.parse_search_results and scrape_item). *)
(* The URL builder _build_search_url is modelled as url_test.py runs it,    *)
(* in a specification of its own (UrlSpec).                                *)
(*                                                                         *)
(* One action is one stretch of code between two suspension points (the    *)
(* awaits of a fetch), or a finer stretch where a property speaks of the   *)
(* state in between.  The remote site is the environment: what a fetch     *)
(* returns is chosen when the response arrives.  The history variable log  *)
(* records the events of the run; it is written and never read by the      *)
(* actions.                                                                *)
(***************************************************************************)
EXTENDS Integers, Sequences, FiniteSets, TLC

(***************************************************************************)
(* Bounds of the model.                                                    *)
(***************************************************************************)
\* the site holds listings on pages 1..MaxPage of a search; later pages are empty
MaxPage == 1
\* a search page lists at most MaxItems items in a run of several (congress,
\* source) pairs
MaxItems == 1
\* and at most WideItems items in a run of a single pair
WideItems == 2

\* the made-up source tags given to the URL builder have at most MaxTagLen characters
MaxTagLen == 2

\* the congress numbers a run may be asked for (119 is the default start)
CongressValues == {118, 119}
\* the source tags a run may be asked for; only the first is registered
SourceTags == {"legislation", "comreports"}
\* the worker budgets given to the constructor
WorkerValues == {0, 1}
\* the invocations of scrape() on the one instance; a run is invocation 1
Calls == {1, 2}

VARIABLES
    max_workers,   \* self.max_workers
    session,       \* self.session: the id of a session object, 0 before any
    scrapers,      \* self.scrapers: source tag -> the session id its scraper holds, 0 = no entry
    sessions,      \* the state of every aiohttp.ClientSession object
    call,          \* the frame of every invocation of scrape()
    log,           \* history: the events of the run, in order
    url_test       \* the locals of test_url_builder of url_test.py

vars == <<max_workers, session, scrapers, sessions, call, log, url_test>>

(***************************************************************************)
(* Values.                                                                 *)
(***************************************************************************)
\* ScrapingJob(congress, source, page)
ScrapingJob(congress, source, page) ==
    [congress |-> congress, source |-> source, page |-> page]

\* the local `job` before the first job_queue.get()
NoJob == ScrapingJob(0, "", 0)

\* what the site may list: a well-formed item, an item without the h2.item-name
\* element, an item whose h2 holds no <a>, an item whose <a> has no href
ItemKinds == {"ok", "no_title", "no_link", "no_href"}

\* the page contents the site may serve: the listing items in page order
Bodies(n) == UNION {[1..k -> ItemKinds] : k \in 0..n}

\* the status of a response; NetErr stands for a fetch that raised
NetErr == 0
Statuses == {200, 500}

\* the outcomes of the search fetch of a job, on a site whose pages list at most
\* n items
SearchOutcomes(job, n) ==
    {[status |-> NetErr, body |-> <<>>]} \cup
    {[status |-> st, body |-> b] :
        st \in Statuses,
        b \in Bodies(IF job.page <= MaxPage THEN n ELSE 0)}

\* the outcomes of the detail fetch of an item
DetailOutcomes == {"ok", "fail"}

\* an event of the history
Event(c, ev, job, n) == [call |-> c, ev |-> ev, job |-> job, n |-> n]

(***************************************************************************)
(* The pure pieces of the code.                                            *)
(***************************************************************************)
\* the orders in which `for source in sources` may walk the set `sources`
SourceOrders ==
    {o \in UNION {[1..k -> SourceTags] : k \in 0..Cardinality(SourceTags)} :
        \A i, j \in DOMAIN o : i # j => o[i] # o[j]}

\* the jobs of one congress: one per source, page 1
RECURSIVE JobsOfCongress(_, _, _)
JobsOfCongress(congress, sources, i) ==
    IF i > Len(sources) THEN <<>>
    ELSE <<ScrapingJob(congress, sources[i], 1)>> \o JobsOfCongress(congress, sources, i + 1)

\* InitialJobs with range(start_congress, end_congress, -1): the last congress left out
RECURSIVE InitialJobsExclusive(_, _, _)
InitialJobsExclusive(start_congress, end_congress, sources) ==
    IF start_congress <= end_congress THEN <<>>
    ELSE JobsOfCongress(start_congress, sources, 1)
         \o InitialJobsExclusive(start_congress - 1, end_congress, sources)

\* for congress in range(start_congress, end_congress - 1, -1): for source in sources: put
RECURSIVE InitialJobs(_, _, _)
InitialJobs(start_congress, end_congress, sources) ==
    IF start_congress < end_congress THEN <<>>
    ELSE JobsOfCongress(start_congress, sources, 1)
         \o InitialJobs(start_congress - 1, end_congress, sources)

\* ThreadPoolExecutor(max_workers=...) raises ValueError unless max_workers > 0
PoolAccepts(workers) == workers > 0

\* session.get() and response.text() raise on a network error, and on nothing else
FetchRaises(outcome) == outcome.status = NetErr

\* ScraperFor falling back on the scraper of 'legislation'
ScraperForDefault(registry, source) ==
    IF registry[source] # 0 THEN registry[source] ELSE registry["legislation"]

\* self.scrapers.get(job.source): the scraper of the source, 0 (None) when it has none
ScraperFor(registry, source) == registry[source]

\* the record parse_search_results builds of item i of the page of `job`
SearchRecord(job, i) ==
    [bill_number |-> <<"bill", job.congress, job.source, job.page, i>>,
     title       |-> "title",
     status      |-> "status",
     sponsor     |-> "sponsor",
     url         |-> <<"url", job.congress, job.source, job.page, i>>,
     scraped_at  |-> "search"]

\* ParseFrom with the try around the loop: the first item without a link ends it
RECURSIVE ParseFromStopsAtBadLink(_, _, _)
ParseFromStopsAtBadLink(html, job, i) ==
    IF i > Len(html) THEN <<>>
    ELSE IF html[i] = "no_title" THEN ParseFromStopsAtBadLink(html, job, i + 1)
    ELSE IF html[i] = "no_link" THEN <<>>
    ELSE IF html[i] = "no_href" THEN <<>>
    ELSE <<SearchRecord(job, i)>> \o ParseFromStopsAtBadLink(html, job, i + 1)

\* one pass of the loop of parse_search_results over items i.. of the page:
\* no title element: continue; no <a> in it: link.text raises, caught, continue;
\* no href on the <a>: link['href'] raises, caught, continue
RECURSIVE ParseFrom(_, _, _)
ParseFrom(html, job, i) ==
    IF i > Len(html) THEN <<>>
    ELSE IF html[i] = "no_title" THEN ParseFrom(html, job, i + 1)
    ELSE IF html[i] = "no_link" THEN ParseFrom(html, job, i + 1)
    ELSE IF html[i] = "no_href" THEN ParseFrom(html, job, i + 1)
    ELSE <<SearchRecord(job, i)>> \o ParseFrom(html, job, i + 1)

parse_search_results(html, job) == ParseFrom(html, job, 1)

\* scrape_item with a title taken from the detail page among its keys
scrape_itemWithTitle(url, outcome) ==
    IF outcome = "ok"
    THEN [url              |-> url,
          title            |-> "detail title",
          committees       |-> "committees",
          actions          |-> "actions",
          cosponsors       |-> "cosponsors",
          last_action_date |-> "last_action_date",
          introduced_date  |-> "introduced_date",
          scraped_at       |-> "detail"]
    ELSE <<>>

\* scrape_item: the enrichment mapping of a detail page, {} when the fetch or the
\* parse raised
scrape_item(url, outcome) ==
    IF outcome = "ok"
    THEN [url              |-> url,
          committees       |-> "committees",
          actions          |-> "actions",
          cosponsors       |-> "cosponsors",
          last_action_date |-> "last_action_date",
          introduced_date  |-> "introduced_date",
          scraped_at       |-> "detail"]
    ELSE <<>>

\* item.update(details)
Update(item, details) ==
    [k \in DOMAIN item \cup DOMAIN details |->
        IF k \in DOMAIN details THEN details[k] ELSE item[k]]

\* Continuation without its test of the result list
ContinuationAlways(job, items) ==
    <<ScrapingJob(job.congress, job.source, job.page + 1)>>

\* Continuation stepping over a page
ContinuationSkips(job, items) ==
    IF items # <<>>
    THEN <<ScrapingJob(job.congress, job.source, job.page + 2)>>
    ELSE <<>>

\* Continuation without the step to the next page
ContinuationSamePage(job, items) ==
    IF items # <<>>
    THEN <<ScrapingJob(job.congress, job.source, job.page)>>
    ELSE <<>>

\* Continuation putting the next page twice
ContinuationTwice(job, items) ==
    IF items # <<>>
    THEN <<ScrapingJob(job.congress, job.source, job.page + 1),
           ScrapingJob(job.congress, job.source, job.page + 1)>>
    ELSE <<>>

\* if items: job_queue.put(ScrapingJob(congress, source, page + 1))
Continuation(job, items) ==
    IF items # <<>>
    THEN <<ScrapingJob(job.congress, job.source, job.page + 1)>>
    ELSE <<>>

\* the put events of a sequence of jobs
RECURSIVE PutEvents(_, _)
PutEvents(c, jobs) ==
    IF jobs = <<>> THEN <<>>
    ELSE <<Event(c, "put", Head(jobs), 0)>> \o PutEvents(c, Tail(jobs))

(***************************************************************************)
(* _build_search_url and what url_test.py does with its result.  A text is *)
(* a sequence of pieces; a piece is one character, or a run of letters     *)
(* written as one string ("congress", "legislation"), which every          *)
(* conversion below passes through as it passes each of its letters.       *)
(***************************************************************************)
\* the congress argument: an int, or a str
IntCongress(n) == [is_str |-> FALSE, int |-> n, str |-> <<>>]
StrCongress(t) == [is_str |-> TRUE, int |-> 0, str |-> t]

Digits == <<"0", "1", "2", "3", "4", "5", "6", "7", "8", "9">>

\* str(n) of an int n >= 0
RECURSIVE str(_)
str(n) ==
    IF n < 10 THEN <<Digits[n + 1]>>
    ELSE str(n \div 10) \o <<Digits[(n % 10) + 1]>>

\* query["pageSize"]
PageSize == 100

\* the query object with the pagination keys on every page
QueryAlwaysPaged(congress, source, page) ==
    [congress |-> IF congress.is_str THEN congress.str ELSE str(congress.int),
     source   |-> <<source>>,
     pageSize |-> PageSize,
     page     |-> page]

\* the dict `query` of _build_search_url
Query(congress, source, page) ==
    IF page > 1
    THEN [congress |-> IF congress.is_str THEN congress.str ELSE str(congress.int),
          source   |-> <<source>>,
          pageSize |-> PageSize,
          page     |-> page]
    ELSE [congress |-> IF congress.is_str THEN congress.str ELSE str(congress.int),
          source   |-> <<source>>]

\* the body of a JSON string: the quote and the backslash are escaped
RECURSIVE JsonEscape(_)
JsonEscape(t) ==
    IF t = <<>> THEN <<>>
    ELSE (IF Head(t) \in {"\"", "\\"} THEN <<"\\", Head(t)>> ELSE <<Head(t)>>)
         \o JsonEscape(Tail(t))

JsonString(t) == <<"\"">> \o JsonEscape(t) \o <<"\"">>

\* json.dumps(query, separators=(',', ':')): the keys in insertion order
dumps(query) ==
    <<"{">> \o JsonString(<<"congress">>) \o <<":">> \o JsonString(query.congress)
    \o <<",">> \o JsonString(<<"source">>) \o <<":", "[">>
    \o JsonString(query.source[1]) \o <<"]">>
    \o (IF "pageSize" \in DOMAIN query
        THEN <<",">> \o JsonString(<<"pageSize">>) \o <<":">> \o str(query.pageSize)
        ELSE <<>>)
    \o (IF "page" \in DOMAIN query
        THEN <<",">> \o JsonString(<<"page">>) \o <<":">> \o str(query.page)
        ELSE <<>>)
    \o <<"}">>

\* the two hex digits of the characters that are not letters, digits or one of _.-~
PercentCode ==
    (" " :> <<"2", "0">>) @@ ("\"" :> <<"2", "2">>) @@ ("%" :> <<"2", "5">>) @@
    ("+" :> <<"2", "B">>) @@ ("," :> <<"2", "C">>) @@ (":" :> <<"3", "A">>) @@
    ("[" :> <<"5", "B">>) @@ ("\\" :> <<"5", "C">>) @@ ("]" :> <<"5", "D">>) @@
    ("{" :> <<"7", "B">>) @@ ("}" :> <<"7", "D">>)

\* quote_plus leaving the plus sign as it is
RECURSIVE quote_plusKeepsPlus(_)
quote_plusKeepsPlus(t) ==
    IF t = <<>> THEN <<>>
    ELSE (IF Head(t) \in {" ", "+"} THEN <<"+">>
          ELSE IF Head(t) \in DOMAIN PercentCode THEN <<"%">> \o PercentCode[Head(t)]
          ELSE <<Head(t)>>)
         \o quote_plusKeepsPlus(Tail(t))

\* urllib.parse.quote_plus, which urlencode applies to the value: a space becomes
\* a plus sign, every other character outside the safe ones its percent code
RECURSIVE quote_plus(_)
quote_plus(t) ==
    IF t = <<>> THEN <<>>
    ELSE (IF Head(t) = " " THEN <<"+">>
          ELSE IF Head(t) \in DOMAIN PercentCode THEN <<"%">> \o PercentCode[Head(t)]
          ELSE <<Head(t)>>)
         \o quote_plus(Tail(t))

\* urlencode(params) of the one-key dict params
urlencode(params) == <<"q", "=">> \o quote_plus(params.q)

\* self.base_url
base_url == <<"https://www.congress.gov/search">>

\* f"{self.base_url}?{urlencode(params)}"
_build_search_url(congress, source, page) ==
    base_url \o <<"?">> \o urlencode([q |-> dumps(Query(congress, source, page))])

\* urllib.parse.unquote: a percent sign and two hex digits become the character
\* of that code; every other piece, the plus sign included, stays
RECURSIVE unquote(_)
unquote(t) ==
    IF t = <<>> THEN <<>>
    ELSE IF /\ Head(t) = "%"
            /\ Len(t) >= 3
            /\ \E ch \in DOMAIN PercentCode : PercentCode[ch] = <<t[2], t[3]>>
         THEN <<CHOOSE ch \in DOMAIN PercentCode : PercentCode[ch] = <<t[2], t[3]>>>>
              \o unquote(SubSeq(t, 4, Len(t)))
         ELSE <<Head(t)>> \o unquote(Tail(t))

\* the first place at or after i where '?q=' starts in t, 0 when there is none
RECURSIVE Find(_, _)
Find(t, i) ==
    IF i + 2 > Len(t) THEN 0
    ELSE IF SubSeq(t, i, i + 2) = <<"?", "q", "=">> THEN i
    ELSE Find(t, i + 1)

\* t.split('?q=')[1]
SplitQ(t) ==
    LET first == Find(t, 1)
        next  == Find(t, first + 3)
    IN SubSeq(t, first + 3, IF next = 0 THEN Len(t) ELSE next - 1)

\* what json.loads makes of a text that is not JSON
Bad == [ok |-> FALSE, val |-> <<>>, next |-> 0]

\* json.loads reading a string whose opening quote is behind it
RECURSIVE ReadString(_, _, _)
ReadString(t, i, acc) ==
    IF i > Len(t) THEN Bad
    ELSE IF t[i] = "\"" THEN [ok |-> TRUE, val |-> acc, next |-> i + 1]
    ELSE IF t[i] = "\\"
         THEN IF i + 1 > Len(t) THEN Bad
              ELSE ReadString(t, i + 2, Append(acc, t[i + 1]))
    ELSE ReadString(t, i + 1, Append(acc, t[i]))

\* json.loads reading an integer
RECURSIVE ReadNumber(_, _, _)
ReadNumber(t, i, acc) ==
    IF i <= Len(t) /\ \E d \in DOMAIN Digits : Digits[d] = t[i]
    THEN ReadNumber(t, i + 1,
                    10 * acc + (CHOOSE d \in DOMAIN Digits : Digits[d] = t[i]) - 1)
    ELSE [ok |-> TRUE, val |-> acc, next |-> i]

\* json.loads reading the strings of an array whose bracket is behind it
RECURSIVE ReadArray(_, _, _)
ReadArray(t, i, acc) ==
    IF i > Len(t) \/ t[i] # "\"" THEN Bad
    ELSE LET e == ReadString(t, i + 1, <<>>)
         IN IF ~e.ok \/ e.next > Len(t) THEN Bad
            ELSE IF t[e.next] = "," THEN ReadArray(t, e.next + 1, Append(acc, e.val))
            ELSE IF t[e.next] = "]"
                 THEN [ok |-> TRUE, val |-> Append(acc, e.val), next |-> e.next + 1]
            ELSE Bad

\* json.loads reading a value: a string, an array of strings or an integer
ReadValue(t, i) ==
    IF i > Len(t) THEN Bad
    ELSE IF t[i] = "\"" THEN ReadString(t, i + 1, <<>>)
    ELSE IF t[i] = "[" THEN ReadArray(t, i + 1, <<>>)
    ELSE IF \E d \in DOMAIN Digits : Digits[d] = t[i] THEN ReadNumber(t, i, 0)
    ELSE Bad

\* json.loads reading the members of an object whose brace is behind it; a key
\* is a run of letters
RECURSIVE ReadMembers(_, _, _)
ReadMembers(t, i, obj) ==
    IF i > Len(t) \/ t[i] # "\"" THEN Bad
    ELSE LET k == ReadString(t, i + 1, <<>>)
         IN IF ~k.ok \/ Len(k.val) # 1 \/ k.next > Len(t) \/ t[k.next] # ":" THEN Bad
            ELSE LET v == ReadValue(t, k.next + 1)
                     o == (k.val[1] :> v.val) @@ obj
                 IN IF ~v.ok \/ v.next > Len(t) THEN Bad
                    ELSE IF t[v.next] = "," THEN ReadMembers(t, v.next + 1, o)
                    ELSE IF t[v.next] = "}" /\ v.next = Len(t)
                         THEN [ok |-> TRUE, val |-> o, next |-> v.next + 1]
                    ELSE Bad

\* json.loads(t) of the text of an object; "JSONDecodeError" when it raises
loads(t) ==
    IF t # <<>> /\ t[1] = "{"
    THEN LET r == ReadMembers(t, 2, <<>>)
         IN IF r.ok THEN r.val ELSE "JSONDecodeError"
    ELSE "JSONDecodeError"

\* the characters of the made-up source tags: a letter, a safe mark, the space,
\* and the marks that quote_plus or json.dumps rewrite
TagChars == {"a", "-", " ", "+", "%", "\"", "\\"}

\* the source tags given to the URL builder: the two of the site and the made-up ones
TagTexts ==
    {<<"legislation">>, <<"comreports">>}
    \cup UNION {[1..k -> TagChars] : k \in 1..MaxTagLen}

\* the congress arguments given to the URL builder
CongressInputs ==
    {IntCongress(n) : n \in CongressValues} \cup {StrCongress(<<"all">>)}

\* url_test.py before its loop picks a case
NoCase ==
    [pc         |-> "start",
     congress   |-> IntCongress(0),
     source     |-> <<>>,
     page       |-> 0,
     query      |-> <<>>,
     url        |-> <<>>,
     q_param    |-> <<>>,
     query_json |-> <<>>]

\* the longest listing explored in a run: WideItems when the run has a single
\* (congress, source) pair, MaxItems when it has several
ListingBound(f) ==
    IF Len(InitialJobs(f.start_congress, f.end_congress, f.sources)) = 1
    THEN WideItems
    ELSE MaxItems

(***************************************************************************)
(* The state after construction: CongressScraper(max_workers), no call of  *)
(* scrape() yet.                                                           *)
(***************************************************************************)
IdleFrame ==
    [pc             |-> "idle",
     start_congress |-> 0,
     end_congress   |-> 0,
     sources        |-> <<>>,
     job_queue      |-> <<>>,
     results        |-> <<>>,
     job            |-> NoJob,
     scraper        |-> 0,
     items          |-> <<>>,
     detailed_items |-> <<>>,
     status         |-> NetErr,
     html           |-> <<>>]

Init ==
    /\ max_workers \in WorkerValues
    /\ session = 0
    /\ scrapers = [t \in SourceTags |-> 0]
    /\ sessions = [s \in Calls |-> "unopened"]
    /\ call = [c \in Calls |-> IdleFrame]
    /\ log = <<>>
    /\ url_test = NoCase

\* what an action of scrape() leaves alone of the instance and of url_test.py
InstanceUnchanged == UNCHANGED <<max_workers, session, scrapers, sessions, url_test>>

(***************************************************************************)
(* scrape(), one action per stretch of its code.                           *)
(***************************************************************************)
\* the call itself: the arguments are bound
scrape(c) ==
    /\ call[c].pc = "idle"
    /\ \E start \in CongressValues, end \in CongressValues, srcs \in SourceOrders :
         call' = [call EXCEPT ![c] = [@ EXCEPT !.pc = "init",
                                               !.start_congress = start,
                                               !.end_congress = end,
                                               !.sources = srcs]]
    /\ UNCHANGED log
    /\ InstanceUnchanged

\* await self._init_session(): a new session object (named after the call that
\* makes it) replaces self.session, a new scraper holding it replaces the entry
\* of 'legislation'
_init_session(c) ==
    /\ call[c].pc = "init"
    /\ sessions' = [sessions EXCEPT ![c] = "open"]
    /\ session' = c
    /\ scrapers' = [scrapers EXCEPT !["legislation"] = c]
    /\ call' = [call EXCEPT ![c].pc = "populate"]
    /\ log' = Append(log, Event(c, "open", NoJob, c))
    /\ UNCHANGED <<max_workers, url_test>>

\* job_queue = queue.Queue() and the initial jobs
Populate(c) ==
    /\ call[c].pc = "populate"
    /\ LET jobs == InitialJobs(call[c].start_congress, call[c].end_congress,
                               call[c].sources)
       IN /\ call' = [call EXCEPT ![c] = [@ EXCEPT !.pc = "pool", !.job_queue = jobs]]
          /\ log' = log \o PutEvents(c, jobs)
    /\ InstanceUnchanged

\* results = [] and the with statement: the executor is built, or its
\* constructor raises out of scrape()
EnterPool(c) ==
    /\ call[c].pc = "pool"
    /\ call' = [call EXCEPT ![c] =
                  [@ EXCEPT !.pc = IF PoolAccepts(max_workers) THEN "loop" ELSE "raised",
                            !.results = <<>>]]
    /\ UNCHANGED log
    /\ InstanceUnchanged

\* Get not waiting for the page of the job before: the job is handed to the
\* pool and the loop goes on
GetWithoutAwait(c) ==
    /\ call[c].pc \in {"loop", "search_wait", "detail_wait"}
    /\ call[c].job_queue # <<>>
    /\ call' = [call EXCEPT ![c] = [@ EXCEPT !.pc = "page",
                                             !.job = Head(call[c].job_queue),
                                             !.job_queue = Tail(call[c].job_queue)]]
    /\ log' = Append(log, Event(c, "get", Head(call[c].job_queue), 0))
    /\ InstanceUnchanged

\* Get taking the job that was put last
GetLast(c) ==
    /\ call[c].pc = "loop"
    /\ call[c].job_queue # <<>>
    /\ LET q == call[c].job_queue
       IN /\ call' = [call EXCEPT ![c] = [@ EXCEPT !.pc = "page",
                                                   !.job = q[Len(q)],
                                                   !.job_queue = SubSeq(q, 1, Len(q) - 1)]]
          /\ log' = Append(log, Event(c, "get", q[Len(q)], 0))
    /\ InstanceUnchanged

\* while not job_queue.empty(): job = job_queue.get()
Get(c) ==
    /\ call[c].pc = "loop"
    /\ call[c].job_queue # <<>>
    /\ call' = [call EXCEPT ![c] = [@ EXCEPT !.pc = "page",
                                             !.job = Head(call[c].job_queue),
                                             !.job_queue = Tail(call[c].job_queue)]]
    /\ log' = Append(log, Event(c, "get", Head(call[c].job_queue), 0))
    /\ InstanceUnchanged

\* the loop ends on the empty queue
Drained(c) ==
    /\ call[c].pc = "loop"
    /\ call[c].job_queue = <<>>
    /\ call' = [call EXCEPT ![c].pc = "closing"]
    /\ UNCHANGED log
    /\ InstanceUnchanged

\* _scrape_page up to the first await: the URL is built and the request sent on
\* self.session; a closed session raises, which the except turns into []
SearchGet(c) ==
    /\ call[c].pc = "page"
    /\ IF sessions[session] = "open"
       THEN /\ call' = [call EXCEPT ![c].pc = "search_wait"]
            /\ log' = Append(log, Event(c, "search", call[c].job, 0))
       ELSE /\ call' = [call EXCEPT ![c] = [@ EXCEPT !.pc = "returned", !.items = <<>>]]
            /\ log' = Append(log, Event(c, "result", call[c].job, 0))
    /\ InstanceUnchanged

\* the response arrives and its text is read, or the fetch raises, which the
\* except turns into []
SearchResponse(c) ==
    /\ call[c].pc = "search_wait"
    /\ \E outcome \in SearchOutcomes(call[c].job, ListingBound(call[c])) :
         IF FetchRaises(outcome)
         THEN /\ call' = [call EXCEPT ![c] = [@ EXCEPT !.pc = "returned", !.items = <<>>]]
              /\ log' = Append(log, Event(c, "result", call[c].job, 0))
         ELSE /\ call' = [call EXCEPT ![c] = [@ EXCEPT !.pc = "parse",
                                                       !.status = outcome.status,
                                                       !.html = outcome.body]]
              /\ UNCHANGED log
    /\ InstanceUnchanged

\* the scraper of the source is looked up and the page parsed; no scraper, or no
\* item: _scrape_page returns [].  html is not read again
Parse(c) ==
    /\ call[c].pc = "parse"
    /\ LET job     == call[c].job
           scraper == ScraperFor(scrapers, job.source)
           items   == IF scraper = 0 THEN <<>>
                      ELSE parse_search_results(call[c].html, job)
       IN /\ call' = [call EXCEPT ![c] =
                        [@ EXCEPT !.pc = IF items = <<>> THEN "returned" ELSE "detail",
                                  !.html = <<>>,
                                  !.scraper = scraper,
                                  !.items = items,
                                  !.detailed_items = <<>>]]
          /\ log' = IF items = <<>>
                    THEN Append(log, Event(c, "result", job, 0))
                    ELSE log
    /\ InstanceUnchanged

\* WithDetails when a failure of scrape_item reaches the except of _scrape_page:
\* the page returns []
WithDetailsAbortsOnFailure(f, details) ==
    LET i      == Len(f.detailed_items) + 1
        item   == Update(f.items[i], details)
        last   == i = Len(f.items)
    IN IF details = <<>>
       THEN [f EXCEPT !.pc = "returned", !.items = <<>>, !.detailed_items = <<>>]
       ELSE [f EXCEPT !.pc = IF last THEN "returned" ELSE "detail",
                      !.items = [f.items EXCEPT ![i] = item],
                      !.detailed_items = Append(f.detailed_items, item)]

\* what the frame becomes when the details of the next item are known
WithDetails(f, details) ==
    LET i      == Len(f.detailed_items) + 1
        item   == Update(f.items[i], details)
        last   == i = Len(f.items)
    IN [f EXCEPT !.pc = IF last THEN "returned" ELSE "detail",
                 !.items = [f.items EXCEPT ![i] = item],
                 !.detailed_items = Append(f.detailed_items, item)]

\* the result event of a frame that has just returned from _scrape_page
ResultEvents(c, f) ==
    IF f.pc = "returned" THEN <<Event(c, "result", f.job, Len(f.items))>> ELSE <<>>

\* DetailGet sending no request: the item is kept as the search page gave it
DetailGetSkipsFetch(c) ==
    /\ call[c].pc = "detail"
    /\ LET f == WithDetails(call[c], scrape_item(<<>>, "fail"))
       IN /\ call' = [call EXCEPT ![c] = f]
          /\ log' = log \o ResultEvents(c, f)
    /\ InstanceUnchanged

\* scraper.scrape_item(item['url']) up to its await: the request is sent on the
\* scraper's session; a closed session raises inside scrape_item, which returns {}
DetailGet(c) ==
    /\ call[c].pc = "detail"
    /\ IF sessions[call[c].scraper] = "open"
       THEN /\ call' = [call EXCEPT ![c].pc = "detail_wait"]
            /\ log' = Append(log, Event(c, "detail", call[c].job,
                                        Len(call[c].detailed_items) + 1))
       ELSE LET f == WithDetails(call[c], scrape_item(<<>>, "fail"))
            IN /\ call' = [call EXCEPT ![c] = f]
               /\ log' = log \o ResultEvents(c, f)
    /\ InstanceUnchanged

\* the detail page arrives (or not): item.update(details), detailed_items.append
DetailResponse(c) ==
    /\ call[c].pc = "detail_wait"
    /\ \E outcome \in DetailOutcomes :
         LET i == Len(call[c].detailed_items) + 1
             f == WithDetails(call[c], scrape_item(call[c].items[i].url, outcome))
         IN /\ call' = [call EXCEPT ![c] = f]
            /\ log' = log \o ResultEvents(c, f)
    /\ InstanceUnchanged

\* Extend putting the records of the job in front of the collection
ExtendInFront(c) ==
    /\ call[c].pc = "returned"
    /\ LET f    == call[c]
           more == Continuation(f.job, f.items)
       IN /\ call' = [call EXCEPT ![c] =
                        [@ EXCEPT !.pc = "loop",
                                  !.results = f.items \o f.results,
                                  !.job_queue = f.job_queue \o more,
                                  !.job = NoJob,
                                  !.scraper = 0,
                                  !.items = <<>>,
                                  !.detailed_items = <<>>,
                                  !.status = NetErr,
                                  !.html = <<>>]]
          /\ log' = Append(log, Event(c, "extend", f.job, Len(f.items)))
                    \o PutEvents(c, more)
    /\ InstanceUnchanged

\* results.extend(items) and the continuation rule; the job is over
Extend(c) ==
    /\ call[c].pc = "returned"
    /\ LET f    == call[c]
           more == Continuation(f.job, f.items)
       IN /\ call' = [call EXCEPT ![c] =
                        [@ EXCEPT !.pc = "loop",
                                  !.results = f.results \o f.items,
                                  !.job_queue = f.job_queue \o more,
                                  !.job = NoJob,
                                  !.scraper = 0,
                                  !.items = <<>>,
                                  !.detailed_items = <<>>,
                                  !.status = NetErr,
                                  !.html = <<>>]]
          /\ log' = Append(log, Event(c, "extend", f.job, Len(f.items)))
                    \o PutEvents(c, more)
    /\ InstanceUnchanged

\* await self.session.close(); return results
Close(c) ==
    /\ call[c].pc = "closing"
    /\ sessions' = [sessions EXCEPT ![session] = "closed"]
    /\ call' = [call EXCEPT ![c].pc = "done"]
    /\ log' = Append(log, Event(c, "close", NoJob, session))
    /\ UNCHANGED <<max_workers, session, scrapers, url_test>>

(***************************************************************************)
(* url_test.py: test_url_builder on one case.                              *)
(***************************************************************************)
\* url = scraper._build_search_url(case['congress'], case['source'], case['page']);
\* query is the dict the builder made on the way
test_url_builder ==
    /\ url_test.pc = "start"
    /\ \E congress \in CongressInputs, source \in TagTexts, page \in 1..(MaxPage + 1) :
         url_test' = [url_test EXCEPT
                        !.pc = "built",
                        !.congress = congress,
                        !.source = source,
                        !.page = page,
                        !.query = Query(congress, source, page),
                        !.url = _build_search_url(congress, source, page)]
    /\ UNCHANGED <<max_workers, session, scrapers, sessions, call, log>>

\* decoded_url = unquote(url); q_param = decoded_url.split('?q=')[1];
\* query_json = json.loads(q_param)
DecodeUrl ==
    /\ url_test.pc = "built"
    /\ LET q_param == SplitQ(unquote(url_test.url))
       IN url_test' = [url_test EXCEPT !.pc = "decoded",
                                       !.q_param = q_param,
                                       !.query_json = loads(q_param)]
    /\ UNCHANGED <<max_workers, session, scrapers, sessions, call, log>>

UrlNext == test_url_builder \/ DecodeUrl

\* the URL builder on its own, as url_test.py runs it
UrlSpec == Init /\ [][UrlNext]_vars

\* one stretch of a call of scrape() that has its arguments
Resume(c) ==
    \/ _init_session(c)
    \/ Populate(c)
    \/ EnterPool(c)
    \/ Get(c)
    \/ Drained(c)
    \/ SearchGet(c)
    \/ SearchResponse(c)
    \/ Parse(c)
    \/ DetailGet(c)
    \/ DetailResponse(c)
    \/ Extend(c)
    \/ Close(c)

Step(c) == scrape(c) \/ Resume(c)

\* one run: a single call of scrape() on the instance
Next == Step(1)

Spec == Init /\ [][Next]_vars

\* the event loop resumes scrape() whenever the fetch it awaits has completed or
\* raised, and runs it to its next await
FairSpec == Spec /\ WF_vars(Next)

(***************************************************************************)
(* Two calls of scrape() on the one instance, as tasks of one event loop:  *)
(* a task runs from one await that suspends it to the next, so a call      *)
(* takes a step only while the other is not started, suspended in a fetch, *)
(* or over.  Each call is given one (congress, 'legislation') pair.        *)
(***************************************************************************)
\* scraper.scrape(congress, congress, {'legislation'})
scrape_one_pair(c) ==
    /\ call[c].pc = "idle"
    /\ \E congress \in CongressValues :
         call' = [call EXCEPT ![c] = [@ EXCEPT !.pc = "init",
                                               !.start_congress = congress,
                                               !.end_congress = congress,
                                               !.sources = <<"legislation">>]]
    /\ UNCHANGED log
    /\ InstanceUnchanged

\* the call is not running: not started, awaiting a fetch, or over
AtAwait(c) == call[c].pc \in {"idle", "search_wait", "detail_wait", "done", "raised"}

\* every other call is at an await, so the event loop may run call c
MayRun(c) == \A d \in Calls \ {c} : AtAwait(d)

\* one stretch of call c, run by the event loop
Turn(c) ==
    \/ MayRun(c) /\ scrape_one_pair(c)
    \/ MayRun(c) /\ _init_session(c)
    \/ MayRun(c) /\ Populate(c)
    \/ MayRun(c) /\ EnterPool(c)
    \/ MayRun(c) /\ Get(c)
    \/ MayRun(c) /\ Drained(c)
    \/ MayRun(c) /\ SearchGet(c)
    \/ MayRun(c) /\ SearchResponse(c)
    \/ MayRun(c) /\ Parse(c)
    \/ MayRun(c) /\ DetailGet(c)
    \/ MayRun(c) /\ DetailResponse(c)
    \/ MayRun(c) /\ Extend(c)
    \/ MayRun(c) /\ Close(c)

TwoCallsNext == Turn(1) \/ Turn(2)

TwoCallsSpec == Init /\ [][TwoCallsNext]_vars

(***************************************************************************)
(* Reading the history.                                                    *)
(***************************************************************************)
\* the (congress, source) pair of a job
Pair(job) == <<job.congress, job.source>>

\* the places of the events of one kind
Places(ev) == {i \in DOMAIN log : log[i].ev = ev}

\* event k of the history is of kind ev
Is(k, ev) == k \in DOMAIN log /\ log[k].ev = ev

\* the source has a scraper in the registry
Registered(source) == scrapers[source] # 0

\* the frame of the run
run == call[1]

(***************************************************************************)
(* C1. After a job (congress, source, page) has been processed: if its     *)
(* result list is non-empty, exactly one new job is enqueued, and it is    *)
(* (congress, source, page + 1); if the list is empty, no job is enqueued  *)
(* for the pair, and no page of the pair is dequeued or fetched later in   *)
(* the run.                                                                *)
(***************************************************************************)
C1_ContinuationRule ==
    \A i \in Places("extend") :
        LET job  == log[i].job
            next == ScrapingJob(job.congress, job.source, job.page + 1)
        IN IF log[i].n > 0
           THEN /\ Is(i + 1, "put")
                /\ log[i + 1].job = next
                /\ ~Is(i + 2, "put")
                /\ \A k \in DOMAIN log : Is(k, "put") /\ log[k].job = next => k = i + 1
           ELSE /\ ~Is(i + 1, "put")
                /\ \A k \in DOMAIN log :
                     k > i /\ log[k].ev \in {"put", "get", "search"}
                        => Pair(log[k].job) # Pair(job)

\* a finished run in which a pair went on from a non-empty page and stopped at an
\* empty one
C1_Witness ==
    /\ run.pc = "done"
    /\ \E i, k \in Places("extend") :
         /\ i < k
         /\ log[i].n > 0
         /\ log[k].n = 0
         /\ Pair(log[i].job) = Pair(log[k].job)

(***************************************************************************)
(* C2. Every run of scrape() eventually reaches TERMINATED: the queue is   *)
(* empty and scrape() has returned.                                        *)
(***************************************************************************)
C2_RunTerminates == <>(run.pc = "done")

(***************************************************************************)
(* C3. Exactly one session is opened, before the first job is dequeued,    *)
(* and on every exit of scrape(), by return or by an exception, every      *)
(* session that was opened is closed.                                      *)
(***************************************************************************)
C3_SessionClosedOnExit ==
    /\ \A g \in Places("get") : \E o \in Places("open") : o < g
    /\ Cardinality(Places("open")) <= 1
    /\ run.pc \in {"done", "raised"} =>
         /\ Cardinality(Places("open")) = 1
         /\ \A s \in DOMAIN sessions : sessions[s] # "open"

(***************************************************************************)
(* C4. No exception leaves scrape(), whatever the configuration and        *)
(* whatever fails in a job; a job that failed before its page was parsed   *)
(* contributes no record.                                                  *)
(***************************************************************************)
C4_NothingEscapes ==
    /\ run.pc # "raised"
    /\ run.pc = "returned" /\ run.scraper = 0 => run.items = <<>>

(***************************************************************************)
(* C5. A job whose search fetch failed, by a network error or by a         *)
(* response outside 2xx, adds no record to the results and no job to the   *)
(* queue.                                                                  *)
(***************************************************************************)
C5_FailedFetchYieldsNothing ==
    [][run.pc = "returned" /\ run.status \notin 200..299
         => /\ run'.results = run.results
            /\ run'.job_queue = run.job_queue]_vars

(***************************************************************************)
(* C6. A job whose source has no scraper in the registry yields no record  *)
(* and no continuation, and the jobs queued behind it are still processed  *)
(* to their normal results: a registered job whose page arrived yields     *)
(* one record per well-formed listing item of that page, and when          *)
(* scrape() returns every job ever enqueued has been dequeued and its      *)
(* records appended.                                                       *)
(***************************************************************************)
\* the bill numbers of the well-formed items of a page, in page order
WellFormedBills(html, job) ==
    {<<"bill", job.congress, job.source, job.page, i>> :
        i \in {k \in DOMAIN html : html[k] = "ok"}}

C6_UnknownSourceSkipped ==
    /\ [](/\ run.pc = "returned" /\ ~Registered(run.job.source) => run.items = <<>>
          /\ \A i \in Places("extend") :
               ~Registered(log[i].job.source)
                  => log[i].n = 0 /\ ~Is(i + 1, "put")
          /\ run.pc = "done"
               => LET gets    == Places("get")
                      extends == Places("extend")
                  IN \A p \in Places("put") :
                       \E g \in gets :
                          /\ p < g
                          /\ log[g].job = log[p].job
                          /\ \E e \in extends : g < e /\ log[e].job = log[p].job)
    /\ [][run.pc = "parse" /\ Registered(run.job.source)
            => /\ {run'.items[k].bill_number : k \in DOMAIN run'.items}
                     = WellFormedBills(run.html, run.job)
               /\ Len(run'.items) = Cardinality(WellFormedBills(run.html, run.job))]_vars

\* a finished run in which a job of an unregistered source was processed while a
\* registered job was waiting in the queue, and that job then yielded records
C6_Witness ==
    /\ run.pc = "done"
    /\ \E u, e \in Places("extend"), p \in Places("put") :
         /\ ~Registered(log[u].job.source)
         /\ Registered(log[e].job.source)
         /\ log[p].job = log[e].job
         /\ p < u /\ u < e
         /\ log[e].n > 0

(***************************************************************************)
(* C7. Before the first job is dequeued the queue holds exactly one job    *)
(* (congress, source, 1) for every congress of end_congress..start_congress*)
(* and every requested source, congress values descending, and nothing     *)
(* else; when start_congress < end_congress the queue is empty, no search  *)
(* fetch is made and the collection scrape() returns is empty.             *)
(***************************************************************************)
C7_InitialPopulation ==
    LET q     == run.job_queue
        first == run.start_congress
        last  == run.end_congress
        tags  == {run.sources[i] : i \in DOMAIN run.sources}
    IN /\ run.pc \in {"pool", "loop", "raised"} /\ Places("get") = {}
          => /\ \A i \in DOMAIN q :
                   /\ q[i].page = 1
                   /\ q[i].source \in tags
                   /\ q[i].congress \in last..first
             /\ \A congress \in last..first, source \in tags :
                   Cardinality({i \in DOMAIN q :
                       q[i] = ScrapingJob(congress, source, 1)}) = 1
             /\ \A i, j \in DOMAIN q : i < j => q[i].congress >= q[j].congress
             /\ first < last => q = <<>>
       /\ run.pc # "idle" /\ first < last
          => /\ Places("search") = {}
             /\ run.pc = "done" => run.results = <<>>

\* the run is about to dequeue its first job, of two congresses and two sources
C7_Witness ==
    /\ run.pc = "loop"
    /\ Places("get") = {}
    /\ Len(run.job_queue) = 4
    /\ run.start_congress > run.end_congress

(***************************************************************************)
(* C8. The search fetch of page N + 1 of a pair never starts before the    *)
(* result list of page N of the pair has been computed and found           *)
(* non-empty.                                                              *)
(***************************************************************************)
C8_PageOrder ==
    \A k \in Places("search") :
        log[k].job.page > 1
           => \E i \in 1..(k - 1) :
                 /\ log[i].ev = "result"
                 /\ log[i].job = ScrapingJob(log[k].job.congress, log[k].job.source,
                                             log[k].job.page - 1)
                 /\ log[i].n > 0

\* the search fetch of a second page has started
C8_Witness == \E k \in Places("search") : log[k].job.page = 2

(***************************************************************************)
(* C9. Jobs never overlap: when a job is dequeued, every job dequeued      *)
(* before it has had its search fetch, its parse and all its detail        *)
(* fetches completed and its records appended to the output; at most one   *)
(* job is being drained at any time.                                       *)
(***************************************************************************)
\* the number of records the jobs processed so far have appended
RECURSIVE Appended(_)
Appended(n) ==
    IF n = 0 THEN 0
    ELSE Appended(n - 1) + (IF log[n].ev = "extend" THEN log[n].n ELSE 0)

\* the place of the first dequeue after place i, past the end when there is none
NextGet(i) ==
    LET later == {g \in Places("get") : g > i}
    IN IF later = {} THEN Len(log) + 1
       ELSE CHOOSE g \in later : \A h \in later : g <= h

C9_NoOverlap ==
    /\ \A i \in Places("get") :
         LET g       == NextGet(i)
             between == (i + 1)..(g - 1)
             fetches == {k \in DOMAIN log : /\ log[k].ev \in {"search", "detail"}
                                            /\ log[k].job = log[i].job}
         IN g \in DOMAIN log =>
              \E r \in between :
                 /\ log[r].ev = "result"
                 /\ log[r].job = log[i].job
                 /\ \A k \in fetches : i < k /\ k < r
                 /\ Cardinality({k \in fetches : log[k].ev = "detail"}) = log[r].n
                 /\ \E e \in between :
                      /\ r < e
                      /\ log[e].ev = "extend"
                      /\ log[e].job = log[i].job
                      /\ log[e].n = log[r].n
    /\ run.pc \in {"page", "search_wait", "parse", "detail", "detail_wait", "returned"}
          <=> run.job # NoJob
    /\ run.pc = "loop" => Len(run.results) = Appended(Len(log))

\* a second job is dequeued after a first one that made a detail fetch
C9_Witness ==
    \E i, g \in Places("get"), d \in Places("detail") :
        i < d /\ d < g /\ log[d].job = log[i].job

(***************************************************************************)
(* C10. Every job is consumed exactly once: no (congress, source, page)    *)
(* is dequeued twice or search-fetched twice in a run, and when scrape()   *)
(* returns every job ever enqueued has been dequeued and processed.        *)
(***************************************************************************)
C10_ConsumedOnce ==
    /\ \A i, k \in Places("get") : log[i].job = log[k].job => i = k
    /\ \A i, k \in Places("search") : log[i].job = log[k].job => i = k
    /\ \A i, k \in Places("put") : log[i].job = log[k].job => i = k
    /\ \A g \in Places("get") :
         \E p \in 1..(g - 1) : log[p].ev = "put" /\ log[p].job = log[g].job
    /\ run.pc = "done"
         => /\ run.job_queue = <<>>
            /\ Cardinality(Places("get")) = Cardinality(Places("put"))
            /\ Cardinality(Places("extend")) = Cardinality(Places("put"))

\* a finished run that consumed a continuation job
C10_Witness ==
    /\ run.pc = "done"
    /\ \E g \in Places("get") : log[g].job.page = 2


(***************************************************************************)
(* C11. For a (congress, source) pair whose pages 1..k each return         *)
(* n_i >= 1 listing items and whose page k + 1 returns none, scrape()      *)
(* issues exactly k + 1 search fetches and n_1 + ... + n_k detail fetches  *)
(* and returns n_1 + ... + n_k records of the pair.                        *)
(*                                                                         *)
(* C11_PerPair is the count over a finished run, n_i being the number of   *)
(* records the page of the pair gave.  C11_AsStated takes n_i to be the    *)
(* number of listing items of the page; C11_PageCounts takes it to be the  *)
(* number of listing items that have a title element holding a link with   *)
(* an href, for a source that has a scraper.                               *)
(***************************************************************************)
\* the sum of the counts of the events at the places S
RECURSIVE SumOf(_)
SumOf(S) ==
    IF S = {} THEN 0
    ELSE LET i == CHOOSE x \in S : TRUE IN log[i].n + SumOf(S \ {i})

\* the places of the events of one kind that belong to the pair p
PlacesOf(ev, p) == {i \in DOMAIN log : log[i].ev = ev /\ Pair(log[i].job) = p}

\* the records of the output collection that belong to the pair p
RecordsOf(p) ==
    {k \in DOMAIN run.results :
        <<run.results[k].bill_number[2], run.results[k].bill_number[3]>> = p}

\* the listing items of a page that parse_search_results can make a record of
WellFormed(html) == {i \in DOMAIN html : html[i] = "ok"}

C11_PerPair ==
    run.pc = "done" =>
        \A congress \in CongressValues, source \in SourceTags :
            LET p        == <<congress, source>>
                searches == PlacesOf("search", p)
                nonempty == {i \in PlacesOf("result", p) : log[i].n > 0}
                k        == Cardinality(nonempty)
                total    == SumOf(nonempty)
            IN searches # {} =>
                 /\ Cardinality(searches) = k + 1
                 /\ {log[i].job.page : i \in searches} = 1..(k + 1)
                 /\ {log[i].job.page : i \in nonempty} = 1..k
                 /\ Cardinality(PlacesOf("detail", p)) = total
                 /\ Cardinality(RecordsOf(p)) = total

SearchFields == {"bill_number", "title", "status", "sponsor"}

C12_MergeKeepsSearchFields ==
    [][run.pc \in {"detail", "detail_wait"} =>
         /\ DOMAIN run'.items = DOMAIN run.items
         /\ \A k \in DOMAIN run.items : \A f \in SearchFields :
               /\ f \in DOMAIN run'.items[k]
               /\ run'.items[k][f] = run.items[k][f]
         /\ \A k \in DOMAIN run'.detailed_items :
               run'.detailed_items[k] = run'.items[k]]_vars

\* a page of two items has been merged: the first with the empty mapping, the
\* second with the mapping of its detail page
C12_Witness ==
    /\ run.pc = "returned"
    /\ Len(run.items) = 2
    /\ "committees" \notin DOMAIN run.items[1]
    /\ "committees" \in DOMAIN run.items[2]
    /\ run.items[2].scraped_at = "detail"

(***************************************************************************)
(* C13. For every congress (an integer or the token "all"), every          *)
(* non-empty source tag and every page >= 1, the query object built by     *)
(* _build_search_url is exactly {congress: the string form of congress,    *)
(* source: [source]} when page = 1, the keys pageSize and page being       *)
(* absent, and is that object plus pageSize = 100 and page = page when     *)
(* page > 1.                                                               *)
(***************************************************************************)
\* the text t is the decimal numeral of n: digits only, no leading zero, value n
NumeralOf(t, n) ==
    /\ t # <<>>
    /\ \A i \in DOMAIN t : \E d \in DOMAIN Digits : Digits[d] = t[i]
    /\ Len(t) > 1 => t[1] # "0"
    /\ ReadNumber(t, 1, 0).val = n

C13_QueryObject ==
    url_test.pc # "start" =>
        LET query    == url_test.query
            congress == url_test.congress
        IN /\ IF congress.is_str
              THEN query.congress = congress.str
              ELSE NumeralOf(query.congress, congress.int)
           /\ query.source = <<url_test.source>>
           /\ IF url_test.page = 1
              THEN DOMAIN query = {"congress", "source"}
              ELSE /\ DOMAIN query = {"congress", "source", "pageSize", "page"}
                   /\ query.pageSize = 100
                   /\ query.page = url_test.page

\* the builder was given an int congress and a page after the first
C13_Witness ==
    /\ url_test.pc = "built"
    /\ ~url_test.congress.is_str
    /\ url_test.page = 2
    /\ url_test.query.congress = <<"1", "1", "9">>
    /\ url_test.query.page = 2

unquote_plus(t) ==
    unquote([i \in DOMAIN t |-> IF t[i] = "+" THEN " " ELSE t[i]])

\* the text holds a space
HasSpace(t) == \E i \in DOMAIN t : t[i] = " "

InListingOrder(records, job) ==
    /\ \A k \in DOMAIN records :
          /\ records[k].bill_number[2] = job.congress
          /\ records[k].bill_number[3] = job.source
          /\ records[k].bill_number[4] = job.page
    /\ \A j, k \in DOMAIN records :
          j < k => records[j].bill_number[5] < records[k].bill_number[5]

C15_AppendOnly ==
    [][LET old == run.results
           new == run'.results
       IN /\ Len(new) >= Len(old)
          /\ SubSeq(new, 1, Len(old)) = old
          /\ new # old =>
                /\ run.pc = "returned"
                /\ new = old \o run.items
                /\ InListingOrder(SubSeq(new, Len(old) + 1, Len(new)), run.job)]_vars

\* the collection holds the records of two jobs, those of the first job first
C15_Witness ==
    /\ Len(run.results) = 2
    /\ run.results[1].bill_number[2] = 119
    /\ run.results[2].bill_number[2] = 118
    /\ \E i \in Places("extend") : \E j \in Places("extend") :
          i < j /\ log[i].n = 1 /\ log[j].n = 1

(***************************************************************************)
(* C16. The worker-budget value has no effect on the run: for every        *)
(* integer max_workers given to CongressScraper and the same site          *)
(* behaviour, scrape() performs the same sequence of search and detail     *)
(* fetches and returns the same collection as with max_workers = 1.        *)
(*                                                                         *)
(* max_workers is read at one place, the constructor of the pool, and      *)
(* every other step is taken without it; so the run is that of             *)
(* max_workers = 1 exactly when the step at the pool is the one            *)
(* max_workers = 1 takes.                                                  *)
(***************************************************************************)
C16_BudgetIrrelevant ==
    [][run.pc = "pool" =>
         /\ run'.pc = (IF PoolAccepts(1) THEN "loop" ELSE "raised")
         /\ run'.job_queue = run.job_queue]_vars

(***************************************************************************)
(* C17. For every search page, parse_search_results returns, in page       *)
(* order, exactly one record for each listing item that has both a title   *)
(* element and a link inside it; an item missing either is skipped without *)
(* raising and without removing, reordering or changing the records of its *)
(* sibling items.  (A link is an <a> with an href.)                        *)
(***************************************************************************)
\* the place on the page of the k-th item that has a title and a link
KthWellFormed(html, k) ==
    CHOOSE i \in WellFormed(html) :
        Cardinality({j \in WellFormed(html) : j <= i}) = k

C17_ParseSkipsMalformed ==
    [][run.pc = "parse" /\ Registered(run.job.source) =>
         /\ run'.pc \in {"detail", "returned"}
         /\ Len(run'.items) = Cardinality(WellFormed(run.html))
         /\ \A k \in DOMAIN run'.items :
               run'.items[k] = SearchRecord(run.job, KthWellFormed(run.html, k))]_vars

\* a page of two items has been parsed: the first was skipped, the second kept
C17_Witness ==
    /\ run.pc = "detail"
    /\ run.detailed_items = <<>>
    /\ Len(run.items) = 1
    /\ run.items[1] = SearchRecord(run.job, 2)

(***************************************************************************)
(* C18. When the detail fetch or detail parse of one item fails, that item *)
(* is still appended to the page's result with its search-result fields    *)
(* unchanged and no enrichment keys, the detail fetches of the remaining   *)
(* items of the page are still made, and the page still counts as          *)
(* non-empty for the continuation rule.                                    *)
(*                                                                         *)
(* An item whose detail fetch has been answered is either enriched or left *)
(* exactly as the search page gave it; either way it is appended and the   *)
(* loop goes on to the next item.  A page that returns has had one detail  *)
(* fetch per item, and a page holding an item left without enrichment is   *)
(* extended into the collection and continued like any non-empty page.     *)
(***************************************************************************)
\* the record is as parse_search_results made it
Unenriched(record) ==
    /\ DOMAIN record = DOMAIN SearchRecord(NoJob, 0)
    /\ record.scraped_at = "search"

\* the detail events since the last search event
DetailsOfPage ==
    LET searches == Places("search")
        s        == CHOOSE i \in searches : \A j \in searches : j <= i
    IN {i \in Places("detail") : i > s}

C18_FailedDetailKept ==
    /\ [](run.pc = "returned" /\ run.items # <<>> =>
            {log[i].n : i \in DetailsOfPage} = DOMAIN run.items)
    /\ [][run.pc = "detail_wait" =>
            LET i == Len(run.detailed_items) + 1
            IN /\ DOMAIN run'.items = DOMAIN run.items
               /\ \/ run'.items[i] = run.items[i] /\ Unenriched(run'.items[i])
                  \/ "committees" \in DOMAIN run'.items[i]
               /\ run'.detailed_items = Append(run.detailed_items, run'.items[i])
               /\ run'.pc = (IF i < Len(run.items) THEN "detail" ELSE "returned")]_vars
    /\ [][run.pc = "returned" /\ (\E k \in DOMAIN run.items : Unenriched(run.items[k])) =>
            /\ run'.results = run.results \o run.items
            /\ run'.job_queue =
                 Append(run.job_queue,
                        ScrapingJob(run.job.congress, run.job.source, run.job.page + 1))]_vars

\* a finished run: the detail fetch of the first item of page 1 failed, that of
\* the second was made and succeeded, and page 2 was fetched
C18_Witness ==
    /\ run.pc = "done"
    /\ Len(run.results) = 2
    /\ Unenriched(run.results[1])
    /\ run.results[1].bill_number[5] = 1
    /\ "committees" \in DOMAIN run.results[2]
    /\ run.results[2].bill_number[4] = 1
    /\ \E i \in Places("search") : log[i].job.page = 2

(***************************************************************************)
(* C19. In every reachable state of a scrape() run the queue plus the job  *)
(* being drained hold at most one job per (congress, source) pair, so the  *)
(* queue length never exceeds the number of initial (congress, source)     *)
(* pairs.                                                                  *)
(***************************************************************************)
\* the jobs of the queue and the job being drained
Held ==
    run.job_queue \o (IF run.job = NoJob THEN <<>> ELSE <<run.job>>)

C19_OneJobPerPair ==
    /\ \A i, j \in DOMAIN Held : i # j => Pair(Held[i]) # Pair(Held[j])
    /\ Len(Held) <= Len(InitialJobs(run.start_congress, run.end_congress, run.sources))

\* both initial pairs have been continued: the queue holds their second pages
C19_Witness ==
    /\ run.pc = "loop"
    /\ Len(run.job_queue) = 2
    /\ \A i \in DOMAIN run.job_queue : run.job_queue[i].page = 2

(***************************************************************************)
(* C20. The queue is drained first-in first-out with continuations put at  *)
(* the tail: for every N >= 1, the page-N jobs of all (congress, source)   *)
(* pairs that reach page N are fetched before any page-(N+1) job of any    *)
(* pair, and within one page number the pairs are fetched in the order of  *)
(* their initial jobs.                                                     *)
(***************************************************************************)
\* the place of the pair of `job` among the jobs `jobs`
PlaceIn(jobs, job) == CHOOSE i \in DOMAIN jobs : Pair(jobs[i]) = Pair(job)

C20_FifoOrder ==
    LET fetched == SelectSeq(log, LAMBDA e : e.ev = "search")
        initial == InitialJobs(run.start_congress, run.end_congress, run.sources)
    IN \A k \in DOMAIN fetched : \A i \in 1..(k - 1) :
         \/ fetched[i].job.page < fetched[k].job.page
         \/ /\ fetched[i].job.page = fetched[k].job.page
            /\ PlaceIn(initial, fetched[i].job) < PlaceIn(initial, fetched[k].job)

\* two pairs reached page 2: both first pages were fetched before either second
\* page, and the second pages in the order of the first
C20_Witness ==
    LET fetched == SelectSeq(log, LAMBDA e : e.ev = "search")
    IN /\ Len(fetched) = 4
       /\ fetched[1].job = ScrapingJob(119, "legislation", 1)
       /\ fetched[2].job = ScrapingJob(118, "legislation", 1)
       /\ fetched[3].job = ScrapingJob(119, "legislation", 2)
       /\ fetched[4].job = ScrapingJob(118, "legislation", 2)

(***************************************************************************)
(* C21. The HTTP session of a CongressScraper is read-only after           *)
(* initialization even when two scrape() calls on the same instance        *)
(* interleave at their fetch suspension points: self.session is not        *)
(* rebound once it is set, every fetch of either call uses a session that  *)
(* is still open, and every session opened by either call has been closed  *)
(* once both calls have returned.                                          *)
(***************************************************************************)
\* self.session is not rebound once it holds a session
C21_SessionNotRebound == session # 0 => session' = session

\* a call about to send a request sends it on an open session: the search
\* request on self.session, the detail request on the session of its scraper
C21_FetchOnOpenSession ==
    \A c \in Calls :
        /\ call[c].pc = "page" => sessions[session] = "open"
        /\ call[c].pc = "detail" => sessions[call[c].scraper] = "open"

\* both calls have returned and no session is left open
C21_AllClosedAtReturn ==
    (\A c \in Calls : call[c].pc = "done") =>
        \A s \in Calls : sessions[s] # "open"

C21_SessionReadOnly ==
    /\ [][C21_SessionNotRebound]_vars
    /\ []C21_FetchOnOpenSession
    /\ []C21_AllClosedAtReturn
====
